---- MODULE Spec2Model ----
(***************************************************************************)
(* A model of lattice-char-to-word.cc: fst::ExpandFst, which rewrites a    *)
(* character-level weighted automaton into a word-level one, and the part  *)
(* of main() that owns the label table shared by the expansions.           *)
(*                                                                         *)
(* Weights.  Arc::Weight is an opaque semiring value.  It is modelled by   *)
(* the free monoid over the arcs of the source: the weight of the i-th arc *)
(* is the one-letter word <<i>>, Times is concatenation, One() the empty   *)
(* word.  Every other weight assignment is a homomorphic image of this     *)
(* one, and concatenation is not commutative, so an equation between       *)
(* products that holds here holds for every semiring.  Zero() is the       *)
(* absorbing word <<0>> (no arc has index 0).                              *)
(***************************************************************************)
EXTENDS Integers, Sequences, FiniteSets, TLC

(***************************************************************************)
(* Bounds of the model.                                                    *)
(***************************************************************************)
NumStates == 2      \* states of a source automaton: 0 .. NumStates-1
MaxArcs == 2        \* arcs of a source automaton
MaxLabel == 2       \* labels 0 (epsilon) .. MaxLabel
MaxLen == 2         \* the finite non-negative values of --max-length tried
MaxCalls == 2       \* ExpandFst calls of one run of main()
MaxPathArcs == 4    \* the longest path an entry of the stack can stand for

(***************************************************************************)
(* Program constants.                                                      *)
(***************************************************************************)
INT32_MAX == 2147483647   \* default of --max-length
match_input == FALSE      \* template parameter of ExpandFst, as main() uses it
kNoStateId == -1          \* start of an automaton without states

Labels == 0 .. MaxLabel

(***************************************************************************)
(* The semiring.                                                           *)
(***************************************************************************)
Zero == <<0>>
One == << >>

Times(a, b) ==
  IF a = Zero \/ b = Zero THEN Zero ELSE a \o b

(***************************************************************************)
(* The source automaton: [start, final, arcs].  arcs is the sequence of    *)
(* all arcs in StateIterator/ArcIterator order (by source state, then in   *)
(* the state's own arc order).                                             *)
(***************************************************************************)
ArcsOf(fst, q) == SelectSeq(fst.arcs, LAMBDA a : a.src = q)

MatchLabel(arc) == IF match_input THEN arc.ilabel ELSE arc.olabel

\* std::vector push_back of a label unless it is epsilon
PushLabel(v, l) == IF l # 0 THEN Append(v, l) ELSE v


(***************************************************************************)
(* State.                                                                  *)
(*   ifst, delim, max_length   arguments of ExpandFst                      *)
(*   same_map                  ilabel_map and olabel_map are one object    *)
(*   tab                       the label tables (imap, omap) and, as       *)
(*                             history, the keys handed to insert() since  *)
(*                             the table was last cleared (ilog, olog)     *)
(*   ofst                      the destination automaton                   *)
(*   add_to_initial_stack, S   locals of ExpandFst; top of S is its last   *)
(*                             element                                     *)
(*   pc                        position in main()/ExpandFst                *)
(*   save_symbols              --save-symbols was given: main() keeps one  *)
(*                             table for all lattices                      *)
(*   calls                     lattices read so far by main()'s loop       *)
(*   iters                     iterations of the while loop (line 104)     *)
(*                             begun so far in this call of ExpandFst      *)
(***************************************************************************)
VARIABLES ifst, delim, max_length, same_map, tab, ofst,
          add_to_initial_stack, S, pc, save_symbols, calls, iters

vars == <<ifst, delim, max_length, same_map, tab, ofst,
          add_to_initial_stack, S, pc, save_symbols, calls, iters>>

(***************************************************************************)
(* std::unordered_map<std::vector<Label>, Label>.                          *)
(***************************************************************************)
EmptyMap == [k \in {} |-> 0]

Size(m) == Cardinality(DOMAIN m)

\* insert() over an existing key overwrites it (operator[] semantics)
MapInsertOverwrite(m, key, val) ==
  [k \in DOMAIN m \cup {key} |-> IF k = key THEN val ELSE m[k]]

\* m.insert(make_pair(key, val)): a present key keeps its value
MapInsert(m, key, val) ==
  IF key \in DOMAIN m THEN m ELSE m @@ (key :> val)

EmptyTab == [imap |-> EmptyMap, omap |-> EmptyMap, ilog |-> << >>, olog |-> << >>]

\* ilabel_map->insert(make_pair(key, val)); the write shows in olabel_map
\* too when both pointers name one map (main, lines 305-306)
InsertI(t, key, val) ==
  LET m == MapInsert(t.imap, key, val)
      l == Append(t.ilog, key)
  IN  IF same_map
        THEN [imap |-> m, omap |-> m, ilog |-> l, olog |-> l]
        ELSE [t EXCEPT !.imap = m, !.ilog = l]

InsertO(t, key, val) ==
  LET m == MapInsert(t.omap, key, val)
      l == Append(t.olog, key)
  IN  IF same_map
        THEN [imap |-> m, omap |-> m, ilog |-> l, olog |-> l]
        ELSE [t EXCEPT !.omap = m, !.olog = l]

\* insert(make_pair(key, map->size())).first->second, input side then
\* output side (lines 86-89 and 134-137): the tables after both inserts
InternBoth(t, ikey, okey) ==
  LET t1 == InsertI(t, ikey, Size(t.imap))
  IN  InsertO(t1, okey, Size(t1.omap))

(***************************************************************************)
(* Lines 54-95: reserve epsilon, copy the states and their final weights,  *)
(* copy every delimiter arc and collect the states where a word may start. *)
(***************************************************************************)
IsDelim(arc) == MatchLabel(arc) \in delim

OutArc(s, t, i_l, o_l, w, nextstate) ==
  [src |-> s, ilabel |-> t.imap[i_l], olabel |-> t.omap[o_l],
   weight |-> w, nextstate |-> nextstate]

RECURSIVE PassThrough(_, _, _)
PassThrough(fst, k, acc) ==
  IF k > Len(fst.arcs) THEN acc
  ELSE LET arc == fst.arcs[k] IN
       IF IsDelim(arc)
         THEN LET i_l == PushLabel(<< >>, arc.ilabel)
                  o_l == PushLabel(<< >>, arc.olabel)
                  t   == InternBoth(acc.tab, i_l, o_l)
              IN  PassThrough(fst, k + 1,
                    [tab    |-> t,
                     arcs   |-> Append(acc.arcs,
                                  OutArc(arc.src, t, i_l, o_l, arc.weight, arc.nextstate)),
                     starts |-> acc.starts \cup {arc.nextstate}])
         ELSE PassThrough(fst, k + 1, acc)

Prepare ==
  /\ pc = "start"
  /\ \E acc \in {PassThrough(ifst, 1,
                     [tab    |-> InsertO(InsertI(tab, << >>, 0), << >>, 0),
                      arcs   |-> << >>,
                      starts |-> {ifst.start}])} :
         /\ tab' = acc.tab
         /\ ofst' = [states |-> DOMAIN ifst.final, start |-> ifst.start,
                     final |-> ifst.final, arcs |-> acc.arcs]
         /\ add_to_initial_stack' = acc.starts
  /\ S' = << >>
  /\ pc' = "seed"
  /\ UNCHANGED <<ifst, delim, max_length, same_map, save_symbols, calls, iters>>

(***************************************************************************)
(* Lines 97-102: one entry per word-start state.  The set is a             *)
(* std::unordered_set, whose iteration order the language leaves open:     *)
(* every order is a possible one.                                          *)
(***************************************************************************)
SState(q0, q1, w, ilbls, olbls) ==
  [q0 |-> q0, q1 |-> q1, w |-> w, ilbls |-> ilbls, olbls |-> olbls]

Orders(set) ==
  {f \in [1 .. Cardinality(set) -> set] : \A s \in set : \E k \in DOMAIN f : f[k] = s}

SeedStack(ord) == [k \in DOMAIN ord |-> SState(ord[k], ord[k], One, << >>, << >>)]

Seed ==
  /\ pc = "seed"
  /\ \E ord \in Orders(add_to_initial_stack) : S' = SeedStack(ord)
  /\ pc' = "loop"
  /\ UNCHANGED <<ifst, delim, max_length, same_map, tab, ofst,
                 add_to_initial_stack, save_symbols, calls, iters>>

(***************************************************************************)
(* Lines 104-140: one iteration of the while loop.                         *)
(***************************************************************************)
\* new_length <= max_length (line 117) compares a size_t with an int32: the
\* int32 is converted to size_t, so a negative max_length becomes
\* 2^64 + max_length, above every size a vector can have.
LeqMaxLengthOffByOne(new_length, ml) ==
  IF ml < 0 THEN TRUE ELSE new_length <= ml + 1

LeqMaxLength(new_length, ml) ==
  IF ml < 0 THEN TRUE ELSE new_length <= ml

CurLength(s) == IF match_input THEN Len(s.ilbls) ELSE Len(s.olbls)

NewLength(s, arc) == CurLength(s) + (IF MatchLabel(arc) = 0 THEN 0 ELSE 1)

\* the delimiter test left out
ExtendsAnyArc(s, arc) ==
  LeqMaxLength(NewLength(s, arc), max_length)

\* the length test as new_length < max_length
ExtendsStrict(s, arc) ==
  /\ ~IsDelim(arc)
  /\ NewLength(s, arc) < max_length

\* lines 114-117: the arc continues the run of s
Extends(s, arc) ==
  /\ ~IsDelim(arc)
  /\ LeqMaxLength(NewLength(s, arc), max_length)

\* the weight accumulated as Times(arc.weight, w)
ExtendSwapped(s, arc) ==
  SState(s.q0, arc.nextstate, Times(arc.weight, s.w),
         PushLabel(s.ilbls, arc.ilabel), PushLabel(s.olbls, arc.olabel))

\* lines 120-123
Extend(s, arc) ==
  SState(s.q0, arc.nextstate, Times(s.w, arc.weight),
         PushLabel(s.ilbls, arc.ilabel), PushLabel(s.olbls, arc.olabel))

Pushed(s) ==
  LET ext == SelectSeq(ArcsOf(ifst, s.q1), LAMBDA a : Extends(s, a))
  IN  [k \in DOMAIN ext |-> Extend(s, ext[k])]

HasDelimArc(q) == \E k \in DOMAIN ifst.arcs :
                     ifst.arcs[k].src = q /\ IsDelim(ifst.arcs[k])

\* the test without q0 != q1
EmitsAlsoLoops(s) ==
  HasDelimArc(s.q1) \/ ifst.final[s.q1] # Zero

\* line 133
Emits(s) ==
  s.q0 # s.q1 /\ (HasDelimArc(s.q1) \/ ifst.final[s.q1] # Zero)

Fits(entries) == \A k \in DOMAIN entries : Len(entries[k].w) <= MaxPathArcs

\* one iteration on stack stk, tables t and destination arcs arcs; ok is
\* FALSE, and nothing is changed, when a pushed entry would stand for a
\* path of more than MaxPathArcs arcs: the run is then not followed
\* further (pc = "exhausted").  In the code the loop goes on; a search that
\* never ends leaves ExpandFst only when the stack, the label vectors or
\* the destination outgrow memory (std::bad_alloc, main() returns 1, lines
\* 331-334).
Iteration(stk, t, arcs) ==
  LET s    == stk[Len(stk)]
      rest == SubSeq(stk, 1, Len(stk) - 1)
      new  == Pushed(s)
      t2   == InternBoth(t, s.ilbls, s.olbls)
  IN  IF ~Fits(new)
        THEN [ok |-> FALSE, S |-> stk, tab |-> t, arcs |-> arcs]
        ELSE IF Emits(s)
          THEN [ok |-> TRUE, S |-> rest \o new, tab |-> t2,
                arcs |-> Append(arcs, OutArc(s.q0, t2, s.ilbls, s.olbls, s.w, s.q1))]
          ELSE [ok |-> TRUE, S |-> rest \o new, tab |-> t, arcs |-> arcs]

PopStep ==
  /\ pc = "loop"
  /\ S # << >>
  /\ \E r \in {Iteration(S, tab, ofst.arcs)} :
         /\ pc' = IF r.ok THEN "loop" ELSE "exhausted"
         /\ S' = r.S
         /\ tab' = r.tab
         /\ ofst' = [ofst EXCEPT !.arcs = r.arcs]
  /\ iters' = iters + 1
  /\ UNCHANGED <<ifst, delim, max_length, same_map, add_to_initial_stack,
                 save_symbols, calls>>

\* the whole loop, from stack stk to the empty stack
RECURSIVE RunLoop(_, _, _)
RunLoop(stk, t, arcs) ==
  IF stk = << >> THEN [ok |-> TRUE, S |-> stk, tab |-> t, arcs |-> arcs]
  ELSE LET r == Iteration(stk, t, arcs)
       IN  IF r.ok THEN RunLoop(r.S, r.tab, r.arcs) ELSE r

(***************************************************************************)
(* Line 143: Connect(ofst) keeps the states that lie on a path from the    *)
(* start to a final state, and the arcs between them.  (OpenFst renumbers  *)
(* the states it keeps, in order; the model keeps their names.)            *)
(***************************************************************************)
RECURSIVE Closure(_, _)
Closure(set, step) ==
  LET more == set \cup {e[2] : e \in {e \in step : e[1] \in set}}
  IN  IF more = set THEN set ELSE Closure(more, step)

Connect(fst) ==
  LET fwd  == {<<fst.arcs[k].src, fst.arcs[k].nextstate>> : k \in DOMAIN fst.arcs}
      bwd  == {<<e[2], e[1]>> : e \in fwd}
      acc  == IF fst.start \in fst.states THEN Closure({fst.start}, fwd) ELSE {}
      coac == Closure({q \in fst.states : fst.final[q] # Zero}, bwd)
      keep == acc \cap coac
  IN  [states |-> keep,
       start  |-> IF fst.start \in keep THEN fst.start ELSE kNoStateId,
       final  |-> [q \in keep |-> fst.final[q]],
       arcs   |-> SelectSeq(fst.arcs,
                    LAMBDA a : a.src \in keep /\ a.nextstate \in keep)]

Trim ==
  /\ pc = "loop"
  /\ S = << >>
  /\ ofst' = Connect(ofst)
  /\ pc' = "done"
  /\ UNCHANGED <<ifst, delim, max_length, same_map, tab,
                 add_to_initial_stack, S, save_symbols, calls, iters>>

(***************************************************************************)
(* The source automata tried: every automaton of n states (start state 0)  *)
(* and at most a arcs, as main() reads them: CompactLattice arcs carry the *)
(* same label on both sides.  TransducerPairs adds arcs that consume a     *)
(* label and emit none, which the template also accepts.                   *)
(***************************************************************************)
AcceptorPairs == {<<l, l>> : l \in Labels}

TransducerPairs == AcceptorPairs \cup {<<1, 0>>}

ArcShapes(n, pairs) ==
  {[src |-> s, nextstate |-> t, ilabel |-> lp[1], olabel |-> lp[2]] :
     s \in 0 .. (n - 1), t \in 0 .. (n - 1), lp \in pairs}

SrcSorted(f) == \A i \in 1 .. (Len(f) - 1) : f[i].src <= f[i + 1].src

\* the arcs of an automaton, numbered in iteration order; arc i weighs <<i>>
Numbered(f) ==
  [i \in DOMAIN f |-> [src |-> f[i].src, nextstate |-> f[i].nextstate,
                       ilabel |-> f[i].ilabel, olabel |-> f[i].olabel,
                       weight |-> <<i>>]]

\* the final weights tried: any set of final states, or every state final
AnyFinals(n) == [0 .. (n - 1) -> {Zero, One}]

AllFinal(n) == [0 .. (n - 1) -> {One}]

\* fst is an automaton of n states (final weights from fins) and at most a
\* arcs with labels from pairs
IsAutomaton(fst, fins, n, a, pairs) ==
  \E fin \in fins :
    \E k \in 0 .. a :
      \E f \in [1 .. k -> ArcShapes(n, pairs)] :
        /\ SrcSorted(f)
        /\ fst = [start |-> 0, final |-> fin, arcs |-> Numbered(f)]

(***************************************************************************)
(* main(), lines 284-304: a lattice is read; without --save-symbols the    *)
(* table is cleared before it is expanded.  olat and the locals of         *)
(* ExpandFst are new objects.  The lattice is any automaton of n states    *)
(* and at most a arcs; main() reads at most limit lattices.                *)
(***************************************************************************)
NoFst == [states |-> {}, start |-> kNoStateId, final |-> EmptyMap, arcs |-> << >>]

NoLattice == [start |-> kNoStateId, final |-> EmptyMap, arcs |-> << >>]

NextLattice(fins, n, a, pairs, limit) ==
  /\ pc \in {"read", "done"}
  /\ calls < limit
  /\ calls' = calls + 1
  /\ iters' = 0
  /\ IsAutomaton(ifst', fins, n, a, pairs)
  /\ tab' = IF save_symbols THEN tab ELSE EmptyTab
  /\ ofst' = NoFst
  /\ add_to_initial_stack' = {}
  /\ S' = << >>
  /\ pc' = "start"
  /\ UNCHANGED <<delim, max_length, same_map, save_symbols>>

(***************************************************************************)
(* main(), lines 225-282: the command line is parsed; no lattice is read   *)
(* yet and label_map is empty.                                             *)
(***************************************************************************)
InitWith(lens, dels, sames, saves) ==
  /\ delim \in dels
  /\ max_length \in lens
  /\ same_map \in sames
  /\ save_symbols \in saves
  /\ ifst = NoLattice
  /\ tab = EmptyTab
  /\ ofst = NoFst
  /\ add_to_initial_stack = {}
  /\ S = << >>
  /\ pc = "read"
  /\ calls = 0
  /\ iters = 0

Expand == Prepare \/ Seed \/ PopStep \/ Trim

(***************************************************************************)
(* Spec: one expansion with a separator and a length bound.                *)
(***************************************************************************)
Init == InitWith({MaxLen}, {{MaxLabel}}, {TRUE}, {FALSE})

Read == NextLattice(AnyFinals(NumStates), NumStates, MaxArcs, TransducerPairs, 1)

Next == Read \/ Expand

Spec == Init /\ [][Next]_vars

(***************************************************************************)
(* SpecNoDelim: one expansion with no separator, the length bound given    *)
(* (also as a negative number) or left at its default.                     *)
(***************************************************************************)
InitNoDelim == InitWith({-1, MaxLen, INT32_MAX}, {{}}, {TRUE}, {FALSE})

ReadNoDelim == NextLattice(AnyFinals(NumStates), NumStates, MaxArcs, AcceptorPairs, 1)

NextNoDelim == ReadNoDelim \/ Expand

SpecNoDelim == InitNoDelim /\ [][NextNoDelim]_vars

(***************************************************************************)
(* SpecZero: one expansion with --max-length=0, with and without a         *)
(* separator.                                                              *)
(***************************************************************************)
InitZero == InitWith({0}, {{}, {MaxLabel}}, {TRUE}, {FALSE})

ReadZero == NextLattice(AnyFinals(NumStates), NumStates, MaxArcs, TransducerPairs, 1)

NextZero == ReadZero \/ Expand

SpecZero == InitZero /\ [][NextZero]_vars

(***************************************************************************)
(* SpecWide: one expansion of a larger lattice with a separator and a      *)
(* length bound.                                                           *)
(***************************************************************************)
InitWide == InitWith({MaxLen}, {{MaxLabel}}, {TRUE}, {FALSE})

ReadWide == NextLattice(AnyFinals(NumStates + 1), NumStates + 1, MaxArcs + 1,
                        AcceptorPairs, 1)

NextWide == ReadWide \/ Expand

SpecWide == InitWide /\ [][NextWide]_vars

(***************************************************************************)
(* SpecLive: one expansion, run to its end: ExpandFst is sequential code,  *)
(* so a step of it that can be taken is taken.  Every state is final (the  *)
(* final weights decide what is emitted, not what is searched).            *)
(***************************************************************************)
InitLive == InitWith({-1, 0, 1, INT32_MAX}, {{MaxLabel}}, {TRUE}, {FALSE})

ReadLive == NextLattice(AllFinal(NumStates), NumStates, MaxArcs, AcceptorPairs, 1)

NextLive == ReadLive \/ Expand

\* The steps of Expand as pc and iters show them: a step of Expand can be
\* taken exactly from "start", "seed" and "loop", a step of NextLive from
\* there is a step of Expand, and a step of Expand moves pc or begins an
\* iteration.  Under [][NextLive]_vars, fairness for ExpandStep is
\* fairness for Expand.
ExpandStep ==
  /\ pc \in {"start", "seed", "loop"}
  /\ pc' \in {"seed", "loop", "done", "exhausted"}
  /\ iters' \in {iters, iters + 1}

SpecLive == InitLive /\ [][NextLive]_vars /\ WF_<<pc, iters>>(ExpandStep)

(***************************************************************************)
(* SpecCalls: main()'s loop over several lattices, with and without        *)
(* --save-symbols, on one table for both sides (as main() calls ExpandFst) *)
(* and on two.                                                             *)
(***************************************************************************)
InitCalls == InitWith({MaxLen}, {{MaxLabel}}, {TRUE, FALSE}, {TRUE, FALSE})

ReadCalls == NextLattice(AllFinal(NumStates), NumStates, MaxArcs, TransducerPairs,
                         MaxCalls)

NextCalls == ReadCalls \/ Expand

SpecCalls == InitCalls /\ [][NextCalls]_vars

(***************************************************************************)
(* Vocabulary of the properties, stated on the source automaton itself.    *)
(***************************************************************************)
SrcArc(i) == ifst.arcs[i]

DelimiterArc(i) == (IF match_input THEN SrcArc(i).ilabel ELSE SrcArc(i).olabel) \in delim

\* p, a sequence of arc indices, is a path of the source from q0 to q1
IsPath(p, q0, q1) ==
  /\ \A k \in DOMAIN p : p[k] \in DOMAIN ifst.arcs
  /\ IF p = << >> THEN q0 = q1
     ELSE /\ SrcArc(p[1]).src = q0
          /\ SrcArc(p[Len(p)]).nextstate = q1
          /\ \A k \in 1 .. (Len(p) - 1) : SrcArc(p[k]).nextstate = SrcArc(p[k + 1]).src

DelimiterFree(p) == \A k \in DOMAIN p : ~DelimiterArc(p[k])

\* combine(...combine(combine(one(), w(a1)), w(a2))..., w(ak))
RECURSIVE CombineAlong(_, _)
CombineAlong(p, k) ==
  IF k = 0 THEN << >> ELSE CombineAlong(p, k - 1) \o SrcArc(p[k]).weight

RECURSIVE ILabelsAlong(_, _)
ILabelsAlong(p, k) ==
  IF k = 0 THEN << >>
  ELSE LET l == SrcArc(p[k]).ilabel
       IN  IF l = 0 THEN ILabelsAlong(p, k - 1) ELSE Append(ILabelsAlong(p, k - 1), l)

RECURSIVE OLabelsAlong(_, _)
OLabelsAlong(p, k) ==
  IF k = 0 THEN << >>
  ELSE LET l == SrcArc(p[k]).olabel
       IN  IF l = 0 THEN OLabelsAlong(p, k - 1) ELSE Append(OLabelsAlong(p, k - 1), l)

MatchLabelsAlong(p) ==
  IF match_input THEN ILabelsAlong(p, Len(p)) ELSE OLabelsAlong(p, Len(p))

\* the label sequences an id stands for
Keys(map, id) == {key \in DOMAIN map : map[key] = id}

\* a state where a word may start: the start state or the end of a delimiter arc
WordStart(q) ==
  q = ifst.start \/ \E i \in DOMAIN ifst.arcs : DelimiterArc(i) /\ SrcArc(i).nextstate = q

\* a state where a word may end
Boundary(q) ==
  ifst.final[q] # Zero \/ \E i \in DOMAIN ifst.arcs : DelimiterArc(i) /\ SrcArc(i).src = q

\* the arcs of ofst the search loop added, while the loop runs: lines 70-95
\* added one arc per delimiter arc before it
SearchArcs ==
  LET copied == Cardinality({i \in DOMAIN ifst.arcs : DelimiterArc(i)})
  IN  {k \in DOMAIN ofst.arcs : k > copied}

InLoop == pc \in {"loop", "exhausted"}

Interned(log) == {log[i] : i \in DOMAIN log}

FirstIndex(log, key) == CHOOSE i \in DOMAIN log :
                          log[i] = key /\ \A j \in 1 .. (i - 1) : log[j] # key

\* map holds exactly the keys of log, numbered 0..n-1 without gap or
\* duplicate in the order in which they first occur in log, the empty
\* sequence first
TableOf(map, log) ==
  /\ DOMAIN map = Interned(log)
  /\ \A id \in 0 .. (Size(map) - 1) : Cardinality(Keys(map, id)) = 1
  /\ \A key \in DOMAIN map : map[key] \in 0 .. (Size(map) - 1)
  /\ \A k1, k2 \in DOMAIN map :
       map[k1] < map[k2] <=> FirstIndex(log, k1) < FirstIndex(log, k2)
  /\ log # << >> => (<< >> \in DOMAIN map /\ map[<< >>] = 0)

TablesOk ==
  /\ TableOf(tab.imap, tab.ilog)
  /\ TableOf(tab.omap, tab.olog)
  /\ same_map => (tab.imap = tab.omap /\ tab.ilog = tab.olog)

\* log2 continues log1: no reset lies between them
Continues(log1, log2) ==
  Len(log1) <= Len(log2) /\ SubSeq(log2, 1, Len(log1)) = log1

\* every key of map1 is in map2 with the id it has in map1
KeepsIds(map1, map2) ==
  \A key \in DOMAIN map1 : key \in DOMAIN map2 /\ map2[key] = map1[key]

(***************************************************************************)
(* C2: after any sequence of calls and resets, each table is a bijection   *)
(* between the sequences interned since the last reset and 0..n-1, the     *)
(* empty sequence has id 0, ids follow first-insertion order (so they are  *)
(* a function of the sequence of interned keys, and a replay after a reset *)
(* gives the same ids), interning a present key adds nothing, and without  *)
(* a reset an id never changes; for one table on both sides and for two.   *)
(***************************************************************************)
C2_InternTable ==
  [][/\ TablesOk'
     /\ Continues(tab.ilog, tab'.ilog) => KeepsIds(tab.imap, tab'.imap)
     /\ Continues(tab.olog, tab'.olog) => KeepsIds(tab.omap, tab'.omap)
     /\ (Continues(tab.ilog, tab'.ilog) /\ Interned(tab'.ilog) = Interned(tab.ilog))
          => tab'.imap = tab.imap
    ]_vars

\* a second expansion on a kept table, one table for both sides, has ended:
\* it interned a sequence the first one had interned and a new one
C2_Witness ==
  /\ pc = "done"
  /\ calls = MaxCalls
  /\ save_symbols
  /\ same_map
  /\ Size(tab.imap) >= 3
  /\ \E i, j \in DOMAIN tab.ilog :
       i < j /\ tab.ilog[i] = tab.ilog[j] /\ tab.ilog[i] # << >>

(***************************************************************************)
(* C8: an iteration that pops (q0, q1, w, ilbls, olbls) adds exactly the   *)
(* arc q0 -> q1 with labels intern(ilbls), intern(olbls) and weight w when *)
(* q0 # q1 and q1 ends a word, and adds nothing otherwise; q0 is a         *)
(* word-start state; what it pushes continues through the non-delimiter    *)
(* arcs of q1 only.                                                        *)
(***************************************************************************)
C8_PopEmitsOnce ==
  [][(pc = "loop" /\ S # << >> /\ pc' = "loop") =>
       LET s == S[Len(S)]
           n == Len(S) - 1
       IN  /\ WordStart(s.q0)
           /\ IF s.q0 # s.q1 /\ Boundary(s.q1)
                THEN /\ s.ilbls \in DOMAIN tab'.imap
                     /\ s.olbls \in DOMAIN tab'.omap
                     /\ ofst'.arcs = Append(ofst.arcs,
                          [src |-> s.q0, ilabel |-> tab'.imap[s.ilbls],
                           olabel |-> tab'.omap[s.olbls], weight |-> s.w,
                           nextstate |-> s.q1])
                ELSE ofst'.arcs = ofst.arcs
           /\ SubSeq(S', 1, n) = SubSeq(S, 1, n)
           /\ \A k \in (n + 1) .. Len(S') :
                \E i \in DOMAIN ifst.arcs :
                  /\ SrcArc(i).src = s.q1
                  /\ ~DelimiterArc(i)
                  /\ S'[k].q0 = s.q0
                  /\ S'[k].q1 = SrcArc(i).nextstate
                  /\ S'[k].w = s.w \o SrcArc(i).weight
     ]_vars

\* the search has emitted an arc into a state that is not final but has a
\* delimiter arc, and popped without emitting an entry that came back to
\* its origin
C8_Witness ==
  /\ pc = "done"
  /\ \E i \in DOMAIN ifst.arcs :
       /\ ~DelimiterArc(i)
       /\ SrcArc(i).src = ifst.start
       /\ SrcArc(i).nextstate # ifst.start
       /\ ifst.final[SrcArc(i).nextstate] = Zero
       /\ \E j \in DOMAIN ifst.arcs :
            DelimiterArc(j) /\ SrcArc(j).src = SrcArc(i).nextstate
       /\ \E k \in DOMAIN ofst.arcs : ofst.arcs[k].weight = <<i>>

(***************************************************************************)
(* Paths of the source, for the properties about whole expansions.         *)
(***************************************************************************)
PathEnd(p, q) == IF p = << >> THEN q ELSE SrcArc(p[Len(p)]).nextstate

ArcsLeaving(q) == {i \in DOMAIN ifst.arcs : SrcArc(i).src = q}

\* the paths of at most n arcs that leave q, as sequences of arc indices
RECURSIVE PathsFrom(_, _)
PathsFrom(q, n) ==
  IF n = 0 THEN {<< >>}
  ELSE LET shorter == PathsFrom(q, n - 1)
           longest == {p \in shorter : Len(p) = n - 1}
       IN  shorter \cup
           UNION {{Append(p, i) : i \in ArcsLeaving(PathEnd(p, q))} : p \in longest}

\* the paths of one arc or more from the start state to a final state
StartToFinalPaths ==
  {p \in PathsFrom(ifst.start, MaxPathArcs) :
     Len(p) >= 1 /\ ifst.final[PathEnd(p, ifst.start)] # Zero}

MatchLength(p) == Len(MatchLabelsAlong(p))

\* the arcs of ofst are, one for one, the paths of set P, each as an arc
\* from the start state to the end of its path with the path's weight
ArcsAreExactly(P) ==
  /\ \A p \in P :
       Cardinality({k \in DOMAIN ofst.arcs :
                      /\ ofst.arcs[k].weight = CombineAlong(p, Len(p))
                      /\ ofst.arcs[k].src = ifst.start
                      /\ ofst.arcs[k].nextstate = PathEnd(p, ifst.start)}) = 1
  /\ \A k \in DOMAIN ofst.arcs :
       \E p \in P :
         /\ ofst.arcs[k].weight = CombineAlong(p, Len(p))
         /\ ofst.arcs[k].src = ifst.start
         /\ ofst.arcs[k].nextstate = PathEnd(p, ifst.start)

C9_LengthBounded ==
  InLoop =>
    /\ \A k \in DOMAIN S :
         S[k].w # One =>
           (IF match_input THEN Len(S[k].ilbls) ELSE Len(S[k].olbls)) <= max_length
    /\ \A k \in SearchArcs :
         \A key \in Keys(IF match_input THEN tab.imap ELSE tab.omap,
                         IF match_input THEN ofst.arcs[k].ilabel
                                        ELSE ofst.arcs[k].olabel) :
           Len(key) <= max_length

C7_IdsIgnoreSeedOrder ==
  pc = "seed" =>
    \A o1, o2 \in Orders(add_to_initial_stack) :
      LET r1 == RunLoop(SeedStack(o1), tab, ofst.arcs)
          r2 == RunLoop(SeedStack(o2), tab, ofst.arcs)
      IN  (r1.ok /\ r2.ok) =>
            (r1.tab.imap = r2.tab.imap /\ r1.tab.omap = r2.tab.omap)

(***************************************************************************)
(* Paths of the destination.  The weight of a destination path is the      *)
(* sequence of source arcs it stands for.                                  *)
(***************************************************************************)
DstEnd(d) == IF d = << >> THEN ofst.start ELSE ofst.arcs[d[Len(d)]].nextstate

DstLeaving(q) == {k \in DOMAIN ofst.arcs : ofst.arcs[k].src = q}

RECURSIVE DstPathsFrom(_)
DstPathsFrom(n) ==
  IF n = 0 THEN {<< >>}
  ELSE LET shorter == DstPathsFrom(n - 1)
           longest == {d \in shorter : Len(d) = n - 1}
       IN  shorter \cup
           UNION {{Append(d, k) : k \in DstLeaving(DstEnd(d))} : d \in longest}

RECURSIVE DstWeight(_, _)
DstWeight(d, k) ==
  IF k = 0 THEN << >> ELSE DstWeight(d, k - 1) \o ofst.arcs[d[k]].weight

\* the label sequences along d, each id replaced by the sequence it names
RECURSIVE DstILabels(_, _)
DstILabels(d, k) ==
  IF k = 0 THEN << >>
  ELSE DstILabels(d, k - 1) \o
       (CHOOSE key \in Keys(tab.imap, ofst.arcs[d[k]].ilabel) : TRUE)

RECURSIVE DstOLabels(_, _)
DstOLabels(d, k) ==
  IF k = 0 THEN << >>
  ELSE DstOLabels(d, k - 1) \o
       (CHOOSE key \in Keys(tab.omap, ofst.arcs[d[k]].olabel) : TRUE)

\* the start-to-final paths of the destination that stand for at most
\* MaxPathArcs source arcs
DstStartToFinal ==
  IF ofst.start \notin ofst.states THEN {}
  ELSE {d \in DstPathsFrom(MaxPathArcs) :
          /\ ofst.final[DstEnd(d)] # Zero
          /\ Len(DstWeight(d, Len(d))) <= MaxPathArcs}

\* every delimiter-free run of p has at most maxLength match-side labels
RunsWithinLength(p) ==
  \A i \in DOMAIN p : \A j \in i .. Len(p) :
    DelimiterFree(SubSeq(p, i, j)) => MatchLength(SubSeq(p, i, j)) <= max_length

\* the start-to-final paths of the source of at most MaxPathArcs arcs
SrcStartToFinal ==
  {p \in PathsFrom(ifst.start, MaxPathArcs) :
     ifst.final[PathEnd(p, ifst.start)] # Zero}

\* no delimiter-free path leads from a state back to it
NonDelimEdges ==
  {<<SrcArc(i).src, SrcArc(i).nextstate>> : i \in {j \in DOMAIN ifst.arcs : ~DelimiterArc(j)}}

DelimiterFreeAcyclic ==
  \A q \in DOMAIN ifst.final :
    q \notin Closure({e[2] : e \in {f \in NonDelimEdges : f[1] = q}}, NonDelimEdges)

(***************************************************************************)
(* C10, as claimed: when the delimiter-free arcs form no cycle, the        *)
(* start-to-final paths of the destination stand one for one for the       *)
(* start-to-final paths of the source whose delimiter-free runs have at    *)
(* most maxLength match-side labels: each such source path is the weight   *)
(* of exactly one destination path, with the same labels, and every        *)
(* destination path stands for one of them.                                *)
(***************************************************************************)
C10_PathsOneToOne ==
  (pc = "done" /\ DelimiterFreeAcyclic) =>
    /\ \A p \in {r \in SrcStartToFinal : RunsWithinLength(r)} :
         Cardinality({d \in DstStartToFinal : DstWeight(d, Len(d)) = p}) = 1
    /\ \A d \in DstStartToFinal :
         LET p == DstWeight(d, Len(d))
         IN  /\ p \in SrcStartToFinal
             /\ RunsWithinLength(p)
             /\ DstEnd(d) = PathEnd(p, ifst.start)
             /\ DstILabels(d, Len(d)) = ILabelsAlong(p, Len(p))
             /\ DstOLabels(d, Len(d)) = OLabelsAlong(p, Len(p))

(***************************************************************************)
(* Termination.                                                            *)
(***************************************************************************)
\* the while loop of line 104 has found the stack empty
StackEmptied == pc \in {"loop", "done"} /\ S = << >>

(***************************************************************************)
(* C5: when the non-delimiter arcs of the source form no cycle, the        *)
(* expansion ends for every maxLength, the default included: the stack     *)
(* becomes empty.                                                          *)
(***************************************************************************)
C5_AcyclicTerminates == (pc = "start" /\ DelimiterFreeAcyclic) ~> StackEmptied

\* an expansion with the default maxLength has ended on a source whose
\* delimiter arcs form a cycle and whose other arcs, one of them traversed,
\* do not
C5_Witness ==
  /\ pc = "done"
  /\ max_length = INT32_MAX
  /\ DelimiterFreeAcyclic
  /\ NonDelimEdges # {}
  /\ \E i \in DOMAIN ifst.arcs : DelimiterArc(i) /\ SrcArc(i).src = SrcArc(i).nextstate
  /\ \E k \in DOMAIN ofst.arcs : ~DelimiterArc(ofst.arcs[k].weight[1])

(***************************************************************************)
(* C6, as claimed: for every finite maxLength >= 0 and every source, one   *)
(* with a cycle of non-delimiter arcs included, the stack becomes empty.   *)
(* (SpecLive tries maxLength 0 and 1.  A run that ends in "exhausted"      *)
(* there has an entry for a path of more than MaxPathArcs arcs with at     *)
(* most one match-side label, so for a path that goes round a cycle of     *)
(* epsilon-labelled arcs: the length test never stops it, and the loop of  *)
(* the code does not end.)                                                 *)
(***************************************************************************)
C6_AsClaimed ==
  (pc = "start" /\ max_length >= 0 /\ max_length < INT32_MAX) ~> StackEmptied

====
